---- MODULE Spec2Model ----
(***************************************************************************)
(* A model of the consensus core of coinkit (network/scp.go): the          *)
(* NominationState and the BallotState of one node, fed with the messages  *)
(* of its peers.                                                           *)
(***************************************************************************)
EXTENDS Integers, Sequences, FiniteSets, TLC

VARIABLES nState, bState, sb, finder, pair, db, conn

vars == <<nState, bState, sb, finder, pair, db, conn>>

\* The consensus state of the node.
scpVars == <<nState, bState, sb>>

\* The state outside the consensus state of the node.
others == <<finder, pair, db, conn>>

(***************************************************************************)
(* Bounds of the model.                                                    *)
(***************************************************************************)
\* Ballot numbers carried by peer messages range over 1..MaxN.
MaxN == 2

\* SlotValues are 1..NumValues; they are ordered as the integers are.
NumValues == 2

\* The BallotState.Handle loop is cut after MaxLoop rounds.
MaxLoop == 4

\* The lists X and Y of a peer's nomination message have at most MaxLen values.
MaxLen == 2

\* The StateBuilder is followed through the slots 1..MaxSlot.
MaxSlot == 2

(***************************************************************************)
(* The cluster of the tests: four nodes, every slice 3-of-4 over all four  *)
(* (node_test.go, MakeTestQuorumSlice(4)).  The node under study is the    *)
(* first one.                                                              *)
(***************************************************************************)
NumNodes == 4

Nodes == 1..NumNodes

publicKey == 1

Peers == Nodes \ {publicKey}

\* The peers that send messages: as in the first rounds of TestNodeCatchup,
\* the last node stays silent.
Senders == Peers \ {NumNodes}

Values == 1..NumValues

\* The zero SlotValue, which the wire format carries next to a ballot
\* number 0.
ZeroValue == 0

\* The slice every node declares.
TestQuorumSlice == [Members |-> Nodes, Threshold |-> NumNodes - 1]

(***************************************************************************)
(* Phases, in the order of their declaration.                              *)
(***************************************************************************)
Prepare == 0

Confirm == 1

Externalize == 2

(***************************************************************************)
(* Pointers: the nil *Ballot and the nil *SlotValue.                       *)
(***************************************************************************)
Nil == [n |-> -1, x |-> ZeroValue]

NilValue == -1

Ballot(n, x) == [n |-> n, x |-> x]

Equal(a, b) == a = b

\* Ballot order: lexicographic on (n, x).
BallotLess(a, b) == a.n < b.n \/ (a.n = b.n /\ a.x < b.x)

(***************************************************************************)
(* Quorum slices.                                                          *)
(***************************************************************************)
SatisfiedBy(qs, S) == Cardinality(S \cap qs.Members) >= qs.Threshold

\* A BlockedBy that already answers yes when exactly threshold members are
\* left outside S.
BlockedBy_AtMost(qs, S) == Cardinality(qs.Members \ S) <= qs.Threshold

BlockedBy(qs, S) == Cardinality(qs.Members \ S) < qs.Threshold

\* One removal round: the nodes of Q whose slice Q satisfies.  slices is the
\* partial lookup (a function on the nodes with a known slice).
QuorumFilter(slices, Q) == {u \in Q : SatisfiedBy(slices[u], Q)}

RECURSIVE QuorumFixpoint(_, _)
QuorumFixpoint(slices, Q) ==
    LET R == QuorumFilter(slices, Q)
    IN  IF R = Q THEN Q ELSE QuorumFixpoint(slices, R)

\* A MeetsQuorum whose loop stops after one round of removals.
MeetsQuorum_OneRound(self, slices, S) ==
    self \in QuorumFilter(slices, (S \cup {self}) \cap DOMAIN slices)

\* MeetsQuorum(f, nodes) for a quorum finder f with key self and lookup
\* slices.
MeetsQuorum(self, slices, S) ==
    self \in QuorumFixpoint(slices, (S \cup {self}) \cap DOMAIN slices)

(***************************************************************************)
(* A quorum finder on its own: a lookup of slices and a set of nodes, and  *)
(* the answers of MeetsQuorum and of the own slice's BlockedBy for them.   *)
(***************************************************************************)
\* The finder is asked about the nodes 1..NumFinderNodes.
NumFinderNodes == 3

FinderNodes == 1..NumFinderNodes

\* Every QuorumSlice over the finder's nodes: members without duplicates and
\* a threshold in [1, |members|].
FinderSlices ==
    {qs \in [Members : SUBSET FinderNodes \ {{}}, Threshold : 1..NumFinderNodes] :
        qs.Threshold <= Cardinality(qs.Members)}

\* Every lookup: defined for the node itself and for any of the other nodes.
FinderLookups ==
    UNION {[dom -> FinderSlices] :
              dom \in {d \in SUBSET FinderNodes : publicKey \in d}}

\* The finder of a node that has heard of nobody and has been asked nothing.
NewFinder ==
    [slices |-> (publicKey :> TestQuorumSlice), S |-> {}, done |-> {},
     meets |-> FALSE, blocked |-> FALSE]

(***************************************************************************)
(* NominationState.  X, Y and Z are slices, modelled as sequences.         *)
(***************************************************************************)
NominationMessage(i, x, y, d) == [I |-> i, X |-> x, Y |-> y, D |-> d]

NewNominationState ==
    [X |-> <<>>, Y |-> <<>>, Z |-> <<>>, N |-> <<>>, D |-> TestQuorumSlice]

HasSlotValue(list, v) == \E i \in 1..Len(list) : Equal(list[i], v)

HasNomination(s) == Len(s.X) > 0

\* A SetDefault that forgets the HasNomination check.
SetDefault_Overwrite(s, v) == [s EXCEPT !.X = <<v>>]

SetDefault(s, v) == IF HasNomination(s) THEN s ELSE [s EXCEPT !.X = <<v>>]

\* NominationState.QuorumSlice as a lookup table.
NominationSlices(s) ==
    [node \in DOMAIN s.N \cup {publicKey} |->
        IF node = publicKey THEN s.D ELSE s.N[node].D]

MaybeAdvance(s, v) ==
    IF HasSlotValue(s.Z, v) THEN s
    ELSE
      LET votedOrAccepted ==
              (IF HasSlotValue(s.X, v) THEN {publicKey} ELSE {}) \cup
              {node \in DOMAIN s.N :
                  HasSlotValue(s.N[node].Y, v) \/ HasSlotValue(s.N[node].X, v)}
          accepted ==
              (IF HasSlotValue(s.Y, v) THEN {publicKey} ELSE {}) \cup
              {node \in DOMAIN s.N : HasSlotValue(s.N[node].Y, v)}
          accept == \/ MeetsQuorum(publicKey, NominationSlices(s), votedOrAccepted)
                    \/ BlockedBy(s.D, accepted)
          t == IF accept /\ ~HasSlotValue(s.Y, v)
               THEN [s EXCEPT !.Y = Append(s.Y, v)] ELSE s
      IN  IF MeetsQuorum(publicKey, NominationSlices(s), accepted)
          THEN [t EXCEPT !.Z = Append(t.Z, v)] ELSE t

\* list, followed by the values of new[from..] that it lacks, in order.
RECURSIVE AppendNew(_, _, _)
AppendNew(list, new, from) ==
    IF from > Len(new) THEN list
    ELSE AppendNew(IF HasSlotValue(list, new[from]) THEN list
                   ELSE Append(list, new[from]), new, from + 1)

RECURSIVE AdvanceAll(_, _)
AdvanceAll(s, touched) ==
    IF touched = <<>> THEN s
    ELSE AdvanceAll(MaybeAdvance(s, Head(touched)), Tail(touched))

\* The lengths of the lists of the message recorded for node, 0 if none is.
OldLenX(s, node) == IF node \in DOMAIN s.N THEN Len(s.N[node].X) ELSE 0

OldLenY(s, node) == IF node \in DOMAIN s.N THEN Len(s.N[node].Y) ELSE 0

\* A check for old messages that does not look at the length of Y.
NothingNew_IgnoresY(s, node, m) ==
    \/ Len(m.X) < OldLenX(s, node)
    \/ Len(m.X) = OldLenX(s, node) /\ Len(m.Y) = OldLenY(s, node)

\* Whether Handle returns before recording m: m is stale, or a dupe.
NothingNew(s, node, m) ==
    \/ Len(m.X) < OldLenX(s, node)
    \/ Len(m.Y) < OldLenY(s, node)
    \/ Len(m.X) = OldLenX(s, node) /\ Len(m.Y) = OldLenY(s, node)

NominationHandle(s, node, m) ==
    LET oldLenX == OldLenX(s, node)
        oldLenY == OldLenY(s, node)
    IN
    IF NothingNew(s, node, m) THEN s
    ELSE
      LET touched == AppendNew(AppendNew(<<>>, m.X, oldLenX + 1), m.Y, oldLenY + 1)
          t == [s EXCEPT !.N = [u \in DOMAIN s.N \cup {node} |->
                                   IF u = node THEN m ELSE s.N[u]],
                         !.X = AppendNew(s.X, m.X, oldLenX + 1)]
      IN  AdvanceAll(t, touched)

\* The combination of a list of SlotValues: a value stands for the chunk
\* that holds it alone, and combining chunks merges what they hold.
Combine(a, b) == a \cup b

RECURSIVE CombineSlice(_)
CombineSlice(list) ==
    IF Len(list) = 1 THEN {list[1]}
    ELSE Combine({Head(list)}, CombineSlice(Tail(list)))

\* A PredictValue that returns the first value of the list in place of the
\* combination of its values.
PredictValue_NoCombine(s) ==
    IF Len(s.Z) > 0 THEN {s.Z[1]}
    ELSE IF Len(s.Y) > 0 THEN {s.Y[1]}
    ELSE {s.X[1]}

\* PredictValue; it is called when HasNomination is true.
PredictValue(s) ==
    IF Len(s.Z) > 0 THEN CombineSlice(s.Z)
    ELSE IF Len(s.Y) > 0 THEN CombineSlice(s.Y)
    ELSE CombineSlice(s.X)

\* The NominationMessage OutgoingMessages builds from a NominationState.
NominationMessageOf(s) == NominationMessage(1, s.X, s.Y, s.D)

(***************************************************************************)
(* Two nodes that nominate to each other.  Each NominationState is kept in *)
(* the names of its own node: the node itself is publicKey and the other   *)
(* node is OtherNode.  The two nodes have the same slice, one that treats  *)
(* the two alike.                                                          *)
(***************************************************************************)
\* Each of the two nodes handles at most MaxHandles messages of the other.
MaxHandles == 2

OtherNode == 2

\* The slices over the first k nodes, for every k and every threshold.
PairSlices ==
    {qs \in [Members : {1..k : k \in 2..NumNodes}, Threshold : 1..NumNodes] :
        qs.Threshold <= Cardinality(qs.Members)}

\* Two fresh NominationStates with the slice d.  defaults holds the value
\* each node gave to SetDefault (ZeroValue if none), handled the number of
\* messages each has handled.
NewPair(d) ==
    [s |-> <<[NewNominationState EXCEPT !.D = d],
             [NewNominationState EXCEPT !.D = d]>>,
     defaults |-> <<ZeroValue, ZeroValue>>,
     handled |-> <<0, 0>>]

(***************************************************************************)
(* The blocks table of the database (data/database.go): its rows in the    *)
(* order of their insertion, and the error of the last InsertBlock.  The   *)
(* unique index block_slot_idx rejects a row whose slot a row has.         *)
(***************************************************************************)
\* Blocks are inserted for the slots 1..MaxBlockSlot.
MaxBlockSlot == 3

\* The blocks that are inserted: a chunk and a range for a slot.
Blocks ==
    [slot : 1..MaxBlockSlot, chunk : Values \cup {ZeroValue},
     c : {1}, h : 1..MaxN]

\* The database after initialize, with no rows.
NewDatabase == [blocks |-> <<>>, err |-> "nil"]

\* Whether the unique index on slot rejects the row b.
DuplicateKey(rows, b) == \E i \in 1..Len(rows) : rows[i].slot = b.slot

\* An InsertBlock into a table that lacks the unique index on slot.
InsertBlock_NoIndex(d, b) == [blocks |-> Append(d.blocks, b), err |-> "nil"]

\* InsertBlock: the INSERT fails on a duplicate key and stores nothing, and
\* the error is returned; otherwise the row is stored.
InsertBlock(d, b) ==
    IF DuplicateKey(d.blocks, b)
    THEN [d EXCEPT !.err = "duplicate key value violates unique constraint"]
    ELSE [blocks |-> Append(d.blocks, b), err |-> "nil"]

\* GetBlock: the rows of the slot (SELECT * FROM blocks WHERE slot = $1).
GetBlock(d, slot) == {i \in 1..Len(d.blocks) : d.blocks[i].slot = slot}

(***************************************************************************)
(* BasicConnection: the outbox channel, the quit channel with its          *)
(* sync.Once, the closed flag, and the goroutine runOutgoing, which is at  *)
(* its select, at its write of the message cur, or has returned.  A        *)
(* message is the number of the Send call that brought it; 0 is the nil    *)
(* message of a keepalive.  accepted lists the messages Send has put into  *)
(* the outbox, wire the messages written to the network connection, inbox  *)
(* counts the messages waiting in the inbox channel.                       *)
(***************************************************************************)
\* make(chan *util.SignedMessage, 100)
OutboxCapacity == 100

\* Send is called at most MaxSends times.
MaxSends == 102

\* At most MaxInbox messages wait in the inbox.
MaxInbox == 1

NewBasicConnection ==
    [outbox |-> <<>>, inbox |-> 0, quit |-> FALSE, quitCloses |-> 0,
     closed |-> FALSE, once |-> "fresh", out |-> "select", cur |-> 0,
     wire |-> <<>>, sent |-> 0, accepted |-> <<>>, ok |-> FALSE,
     received |-> "none"]

\* A Send into an outbox without a capacity.
Send_Unbounded(c, m) == [c EXCEPT !.outbox = Append(@, m), !.ok = TRUE]

\* Send: the select puts the message into the outbox if there is room and
\* takes its default case if there is none; ok is what Send returns.
Send(c, m) ==
    IF Len(c.outbox) < OutboxCapacity
    THEN [c EXCEPT !.outbox = Append(@, m), !.ok = TRUE]
    ELSE [c EXCEPT !.ok = FALSE]

\* A Close that runs its function without the sync.Once.
CloseEnter_NoOnce(c) == [c EXCEPT !.once = "running", !.closed = TRUE]

\* Close, first half: the first caller enters quitOnce.Do and sets closed;
\* any other call finds the Once taken and does nothing.
CloseEnter(c) ==
    IF c.once = "fresh" THEN [c EXCEPT !.once = "running", !.closed = TRUE]
    ELSE c

\* Close, second half: the caller inside the Once closes the quit channel.
CloseQuit(c) ==
    [c EXCEPT !.quit = TRUE, !.quitCloses = @ + 1, !.once = "done"]

\* The results a Receive can return: a message if one waits in the inbox,
\* nil if quit is closed; it waits if neither is the case.
ReceiveResults(c) ==
    (IF c.inbox > 0 THEN {"message"} ELSE {}) \cup
    (IF c.quit THEN {"nil"} ELSE {})

(***************************************************************************)
(* Ballot messages.                                                        *)
(***************************************************************************)
PrepareMessage(bn, bx, pn, px, ppn, ppx, cn, hn, d) ==
    [T |-> Prepare, Bn |-> bn, Bx |-> bx, Pn |-> pn, Px |-> px,
     Ppn |-> ppn, Ppx |-> ppx, X |-> ZeroValue, Cn |-> cn, Hn |-> hn, D |-> d]

ConfirmMessage(x, pn, cn, hn, d) ==
    [T |-> Confirm, Bn |-> 0, Bx |-> ZeroValue, Pn |-> pn, Px |-> ZeroValue,
     Ppn |-> 0, Ppx |-> ZeroValue, X |-> x, Cn |-> cn, Hn |-> hn, D |-> d]

ExternalizeMessage(x, cn, hn, d) ==
    [T |-> Externalize, Bn |-> 0, Bx |-> ZeroValue, Pn |-> 0, Px |-> ZeroValue,
     Ppn |-> 0, Ppx |-> ZeroValue, X |-> x, Cn |-> cn, Hn |-> hn, D |-> d]

AcceptAsPrepared(m, n, x) ==
    CASE m.T = Prepare -> \/ (m.Pn >= n /\ Equal(m.Px, x))
                          \/ (m.Ppn >= n /\ Equal(m.Ppx, x))
      [] m.T = Confirm -> m.Pn >= n /\ Equal(m.X, x)
      [] OTHER -> Equal(m.X, x)

VoteToPrepare(m, n, x) ==
    CASE m.T = Prepare -> m.Bn >= n /\ Equal(m.Bx, x)
      [] OTHER -> Equal(m.X, x)

AcceptAsCommitted(m, n, x) ==
    CASE m.T = Prepare -> FALSE
      [] m.T = Confirm -> Equal(m.X, x) /\ m.Cn <= n /\ n <= m.Hn
      [] OTHER -> Equal(m.X, x) /\ m.Cn <= n

VoteToCommit(m, n, x) ==
    CASE m.T = Prepare -> m.Cn # 0 /\ m.Cn <= n /\ n <= m.Hn /\ Equal(m.Bx, x)
      [] OTHER -> Equal(m.X, x) /\ m.Cn <= n

BallotNumber(m) == IF m.T = Prepare THEN m.Bn ELSE m.Hn

\* The fields a message is ordered by, after its type.
CompareKey(m) ==
    CASE m.T = Prepare ->
           <<m.Bn, m.Bx, m.Pn, m.Px, m.Ppn, m.Ppx, m.Hn, m.Cn>>
      [] OTHER -> <<m.Hn, m.X, m.Pn, m.Cn>>

RECURSIVE SeqCompare(_, _)
SeqCompare(a, b) ==
    IF a = <<>> THEN 0
    ELSE IF Head(a) < Head(b) THEN -1
    ELSE IF Head(a) > Head(b) THEN 1
    ELSE SeqCompare(Tail(a), Tail(b))

Compare(old, message) ==
    IF old.T < message.T THEN -1
    ELSE IF old.T > message.T THEN 1
    ELSE SeqCompare(CompareKey(old), CompareKey(message))

(***************************************************************************)
(* BallotState.                                                            *)
(***************************************************************************)
NewBallotState ==
    [phase |-> Prepare, b |-> Nil, p |-> Nil, pPrime |-> Nil,
     cn |-> 0, hn |-> 0, z |-> NilValue, M |-> <<>>, D |-> TestQuorumSlice]

\* BallotState.QuorumSlice as a lookup table.
BallotSlices(s) ==
    [node \in DOMAIN s.M \cup {publicKey} |->
        IF node = publicKey THEN s.D ELSE s.M[node].D]

gtecompat(a, ballot) == a # Nil /\ a.n >= ballot.n /\ Equal(a.x, ballot.x)

\* The peers whose latest message satisfies pred(m).
PeersWhere(s, pred(_)) == {node \in DOMAIN s.M : pred(s.M[node])}

\* An update of p and p' that lacks the case of a ballot compatible with p.
UpdatePrepared_NoCompatibleCase(s, ballot) ==
    IF s.p = Nil THEN [s EXCEPT !.p = ballot]
    ELSE IF ballot.n >= s.p.n THEN [s EXCEPT !.pPrime = s.p, !.p = ballot]
    ELSE [s EXCEPT !.pPrime = ballot]

\* The update of p and p' once ballot is accepted as prepared.
UpdatePrepared(s, ballot) ==
    IF s.p = Nil THEN [s EXCEPT !.p = ballot]
    ELSE IF Equal(s.p.x, ballot.x) THEN [s EXCEPT !.p.n = ballot.n]
    ELSE IF ballot.n >= s.p.n THEN [s EXCEPT !.pPrime = s.p, !.p = ballot]
    ELSE [s EXCEPT !.pPrime = ballot]

\* A MaybeAcceptAsPrepared whose abort drops the ballot but keeps the range.
MaybeAcceptAsPrepared_AbortKeepsRange(s, n, x) ==
    IF s.phase # Prepare THEN s
    ELSE IF n = 0 THEN s
    ELSE IF s.p # Nil /\ s.p.n >= n /\ Equal(s.p.x, x) THEN s
    ELSE IF s.pPrime # Nil /\ s.pPrime.n >= n /\ Equal(s.pPrime.x, x) THEN s
    ELSE IF s.pPrime # Nil /\ s.pPrime.n >= n THEN s
    ELSE
      LET accP(m) == AcceptAsPrepared(m, n, x)
          voteP(m) == AcceptAsPrepared(m, n, x) \/ VoteToPrepare(m, n, x)
          accepted == PeersWhere(s, accP)
          votedOrAccepted ==
              (IF s.b # Nil /\ s.b.n >= n /\ Equal(s.b.x, x)
               THEN {publicKey} ELSE {}) \cup PeersWhere(s, voteP)
      IN
      IF /\ ~MeetsQuorum(publicKey, BallotSlices(s), votedOrAccepted)
         /\ ~BlockedBy(s.D, accepted)
      THEN s
      ELSE
        LET abort == s.b # Nil /\ s.hn <= n /\ ~Equal(s.b.x, x)
            t == IF abort THEN [s EXCEPT !.b = Nil] ELSE s
        IN  UpdatePrepared(t, Ballot(n, x))

\* A MaybeAcceptAsPrepared that does not look at the phase.
MaybeAcceptAsPrepared_AnyPhase(s, n, x) ==
    IF n = 0 THEN s
    ELSE IF s.p # Nil /\ s.p.n >= n /\ Equal(s.p.x, x) THEN s
    ELSE IF s.pPrime # Nil /\ s.pPrime.n >= n /\ Equal(s.pPrime.x, x) THEN s
    ELSE IF s.pPrime # Nil /\ s.pPrime.n >= n THEN s
    ELSE
      LET accP(m) == AcceptAsPrepared(m, n, x)
          voteP(m) == AcceptAsPrepared(m, n, x) \/ VoteToPrepare(m, n, x)
          accepted == PeersWhere(s, accP)
          votedOrAccepted ==
              (IF s.b # Nil /\ s.b.n >= n /\ Equal(s.b.x, x)
               THEN {publicKey} ELSE {}) \cup PeersWhere(s, voteP)
      IN
      IF /\ ~MeetsQuorum(publicKey, BallotSlices(s), votedOrAccepted)
         /\ ~BlockedBy(s.D, accepted)
      THEN s
      ELSE
        LET abort == s.b # Nil /\ s.hn <= n /\ ~Equal(s.b.x, x)
            t == IF abort THEN [s EXCEPT !.hn = 0, !.cn = 0, !.b = Nil] ELSE s
        IN  UpdatePrepared(t, Ballot(n, x))

MaybeAcceptAsPrepared(s, n, x) ==
    IF s.phase # Prepare THEN s
    ELSE IF n = 0 THEN s
    ELSE IF s.p # Nil /\ s.p.n >= n /\ Equal(s.p.x, x) THEN s
    ELSE IF s.pPrime # Nil /\ s.pPrime.n >= n /\ Equal(s.pPrime.x, x) THEN s
    ELSE IF s.pPrime # Nil /\ s.pPrime.n >= n THEN s
    ELSE
      LET accP(m) == AcceptAsPrepared(m, n, x)
          voteP(m) == AcceptAsPrepared(m, n, x) \/ VoteToPrepare(m, n, x)
          accepted == PeersWhere(s, accP)
          votedOrAccepted ==
              (IF s.b # Nil /\ s.b.n >= n /\ Equal(s.b.x, x)
               THEN {publicKey} ELSE {}) \cup PeersWhere(s, voteP)
      IN
      IF /\ ~MeetsQuorum(publicKey, BallotSlices(s), votedOrAccepted)
         /\ ~BlockedBy(s.D, accepted)
      THEN s
      ELSE
        LET abort == s.b # Nil /\ s.hn <= n /\ ~Equal(s.b.x, x)
            t == IF abort THEN [s EXCEPT !.hn = 0, !.cn = 0, !.b = Nil] ELSE s
        IN  UpdatePrepared(t, Ballot(n, x))

\* A vote to commit that moves c along with h when it bumps the range.
VoteToCommitPrepared_MovesC(s, n, x) ==
    LET t == IF s.b # Nil /\ ~Equal(s.b.x, x)
             THEN [s EXCEPT !.b = Nil, !.hn = 0, !.cn = 0] ELSE s
    IN  IF t.b = Nil
        THEN [t EXCEPT !.b = Ballot(n, x), !.hn = n, !.cn = n, !.z = x]
        ELSE [t EXCEPT !.hn = n, !.cn = n]

\* What MaybeConfirmAsPrepared does once (n, x) is confirmed as prepared: it
\* votes to commit it.
VoteToCommitPrepared(s, n, x) ==
    LET t == IF s.b # Nil /\ ~Equal(s.b.x, x)
             THEN [s EXCEPT !.b = Nil, !.hn = 0, !.cn = 0] ELSE s
    IN  IF t.b = Nil
        THEN [t EXCEPT !.b = Ballot(n, x), !.hn = n, !.cn = n, !.z = x]
        ELSE [t EXCEPT !.hn = n]

\* Whether a quorum accepts (n, x) as prepared.
ConfirmedAsPrepared(s, n, x) ==
    LET ballot == Ballot(n, x)
        accP(m) == AcceptAsPrepared(m, n, x)
        accepted ==
            (IF gtecompat(s.p, ballot) \/ gtecompat(s.pPrime, ballot)
             THEN {publicKey} ELSE {}) \cup PeersWhere(s, accP)
    IN  MeetsQuorum(publicKey, BallotSlices(s), accepted)

\* A MaybeConfirmAsPrepared that does not look at the phase.
MaybeConfirmAsPrepared_AnyPhase(s, n, x) ==
    IF s.hn >= n THEN s
    ELSE IF ~ConfirmedAsPrepared(s, n, x) THEN s
    ELSE VoteToCommitPrepared(s, n, x)

MaybeConfirmAsPrepared(s, n, x) ==
    IF s.phase # Prepare THEN s
    ELSE IF s.hn >= n THEN s
    ELSE IF ~ConfirmedAsPrepared(s, n, x) THEN s
    ELSE VoteToCommitPrepared(s, n, x)

\* An acceptance of the commit of (n, x) on the word of any one peer.
AcceptedAsCommitted_OnePeer(s, n, x) ==
    \E node \in DOMAIN s.M :
        AcceptAsCommitted(s.M[node], n, x) \/ VoteToCommit(s.M[node], n, x)

\* Whether a quorum votes for or accepts the commit of (n, x), or a blocking
\* set accepts it.
AcceptedAsCommitted(s, n, x) ==
    LET accC(m) == AcceptAsCommitted(m, n, x)
        voteC(m) == AcceptAsCommitted(m, n, x) \/ VoteToCommit(m, n, x)
        accepted == PeersWhere(s, accC)
        votedOrAccepted ==
            (IF /\ s.phase = Prepare /\ s.b # Nil /\ Equal(s.b.x, x)
                /\ s.cn # 0 /\ s.cn <= n /\ n <= s.hn
             THEN {publicKey} ELSE {}) \cup PeersWhere(s, voteC)
    IN  \/ MeetsQuorum(publicKey, BallotSlices(s), votedOrAccepted)
        \/ BlockedBy(s.D, accepted)

\* An AcceptCommit that replaces the ballot without recording its value in z.
AcceptCommit_KeepsZ(s, n, x) ==
    IF s.b = Nil \/ ~Equal(s.b.x, x)
    THEN [s EXCEPT !.phase = Confirm, !.b = Ballot(n, x),
                   !.cn = n, !.hn = n]
    ELSE [s EXCEPT !.phase = Confirm,
                   !.cn = IF n < s.cn THEN n ELSE s.cn,
                   !.hn = IF n > s.hn THEN n ELSE s.hn]

\* What MaybeAcceptAsCommitted does once the commit of (n, x) is accepted.
AcceptCommit(s, n, x) ==
    IF s.b = Nil \/ ~Equal(s.b.x, x)
    THEN [s EXCEPT !.phase = Confirm, !.b = Ballot(n, x),
                   !.cn = n, !.hn = n, !.z = x]
    ELSE [s EXCEPT !.phase = Confirm,
                   !.cn = IF n < s.cn THEN n ELSE s.cn,
                   !.hn = IF n > s.hn THEN n ELSE s.hn]

\* A MaybeAcceptAsCommitted that lacks the check for the Externalize phase.
MaybeAcceptAsCommitted_NoExternalizeCheck(s, n, x) ==
    IF s.phase = Confirm /\ s.cn <= n /\ n <= s.hn THEN s
    ELSE IF ~AcceptedAsCommitted(s, n, x) THEN s
    ELSE AcceptCommit(s, n, x)

MaybeAcceptAsCommitted(s, n, x) ==
    IF s.phase = Externalize THEN s
    ELSE IF s.phase = Confirm /\ s.cn <= n /\ n <= s.hn THEN s
    ELSE IF ~AcceptedAsCommitted(s, n, x) THEN s
    ELSE AcceptCommit(s, n, x)

MaybeConfirmAsCommitted(s, n, x) ==
    IF s.phase = Prepare THEN s
    ELSE IF s.b = Nil \/ ~Equal(s.b.x, x) THEN s
    ELSE IF s.phase # Confirm /\ s.cn <= n /\ n <= s.hn THEN s
    ELSE
      LET accC(m) == AcceptAsCommitted(m, n, x)
          accepted ==
              (IF s.phase = Confirm /\ s.cn <= n /\ n <= s.hn
               THEN {publicKey} ELSE {}) \cup PeersWhere(s, accC)
      IN
      IF ~MeetsQuorum(publicKey, BallotSlices(s), accepted) THEN s
      ELSE
        IF s.phase = Confirm
        THEN [s EXCEPT !.phase = Externalize, !.cn = n, !.hn = n]
        ELSE [s EXCEPT !.cn = IF n < s.cn THEN n ELSE s.cn,
                       !.hn = IF n > s.hn THEN n ELSE s.hn]

\* The bool MaybeNextBallot returns.
NextBallotNeeded(s) ==
    /\ s.z # NilValue
    /\ s.b # Nil
    /\ LET above(m) == BallotNumber(m) > s.b.n
       IN  BlockedBy(s.D, PeersWhere(s, above))

\* A MaybeNextBallot that moves to the next ballot without asking whether
\* the peers ahead of it block D.
MaybeNextBallot_Unasked(s) ==
    IF s.z # NilValue /\ s.b # Nil THEN [s EXCEPT !.b.n = s.b.n + 1] ELSE s

MaybeNextBallot(s) ==
    IF NextBallotNeeded(s) THEN [s EXCEPT !.b.n = s.b.n + 1] ELSE s

\* The states after each of the four checks of Investigate.
InvestigateSteps(s, n, x) ==
    LET s1 == MaybeAcceptAsPrepared(s, n, x)
        s2 == MaybeConfirmAsPrepared(s1, n, x)
        s3 == MaybeAcceptAsCommitted(s2, n, x)
        s4 == MaybeConfirmAsCommitted(s3, n, x)
    IN  <<s1, s2, s3, s4>>

Investigate(s, n, x) == InvestigateSteps(s, n, x)[4]

\* The ballots one round of Handle investigates, in order.
Investigated(message) ==
    CASE message.T = Prepare ->
           <<Ballot(message.Bn, message.Bx), Ballot(message.Pn, message.Px),
             Ballot(message.Ppn, message.Ppx)>>
      [] message.T = Confirm -> <<Ballot(message.Hn, message.X)>>
      [] OTHER ->
           [i \in 1..(IF message.Hn >= message.Cn
                      THEN message.Hn - message.Cn + 1 ELSE 0) |->
               Ballot(message.Cn + i - 1, message.X)]

\* The states s passes through while the ballots of bs are investigated.
RECURSIVE InvestigateAll(_, _)
InvestigateAll(s, bs) ==
    IF bs = <<>> THEN <<>>
    ELSE LET steps == InvestigateSteps(s, Head(bs).n, Head(bs).x)
         IN  steps \o InvestigateAll(steps[4], Tail(bs))

\* The state at the end of one round of the loop's Investigate calls.
InvestigateRound(s, message) ==
    LET steps == <<s>> \o InvestigateAll(s, Investigated(message))
    IN  steps[Len(steps)]

\* Whether the for loop of Handle, entered in state s, comes back within
\* fuel rounds to a state in which it has already started a round: the loop
\* is a function of its state and of message, so it then never ends.
RECURSIVE LoopRepeats(_, _, _, _)
LoopRepeats(s, message, seen, fuel) ==
    IF s \in seen THEN TRUE
    ELSE LET last == InvestigateRound(s, message)
         IN  /\ NextBallotNeeded(last)
             /\ fuel > 0
             /\ LoopRepeats(MaybeNextBallot(last), message,
                            seen \cup {s}, fuel - 1)

\* The for loop of Handle: the states passed through, at most fuel rounds.
RECURSIVE HandleLoop(_, _, _)
HandleLoop(s, message, fuel) ==
    LET steps == <<s>> \o InvestigateAll(s, Investigated(message))
        last == steps[Len(steps)]
    IN  IF NextBallotNeeded(last) /\ fuel > 1
        THEN steps \o HandleLoop(MaybeNextBallot(last), message, fuel - 1)
        ELSE steps \o <<MaybeNextBallot(last)>>

\* A stale check that lets a copy of the stored message through.
IsStale_StrictlyOlder(s, node, message) ==
    node \in DOMAIN s.M /\ Compare(s.M[node], message) > 0

\* A stale check that stops only a copy of the stored message.
IsStale_CopyOnly(s, node, message) ==
    node \in DOMAIN s.M /\ Compare(s.M[node], message) = 0

IsStale(s, node, message) ==
    node \in DOMAIN s.M /\ Compare(s.M[node], message) >= 0

Store(s, node, message) ==
    [s EXCEPT !.M = [u \in DOMAIN s.M \cup {node} |->
                        IF u = node THEN message ELSE s.M[u]]]

\* Every state BallotState.Handle passes through, the first being s.
HandleSteps(s, node, message) ==
    IF IsStale(s, node, message) THEN <<s>>
    ELSE <<s>> \o HandleLoop(Store(s, node, message), message, MaxLoop)

BallotHandle(s, node, message) ==
    LET steps == HandleSteps(s, node, message) IN steps[Len(steps)]

HasMessage(s) == s.b # Nil

(***************************************************************************)
(* StateBuilder: the slot being built and the values of the past slots.    *)
(* Its nomination and ballot states are the variables nState and bState;   *)
(* bStateNil tells that its bState pointer is nil, and panicked that a     *)
(* call on it has ended in a nil pointer dereference.                      *)
(***************************************************************************)
NewStateBuilder ==
    [slot |-> 1, values |-> <<>>, bStateNil |-> TRUE, panicked |-> FALSE]

\* A StateBuilder whose BallotState has been created.
WithBallotState(d) == [d EXCEPT !.bStateNil = FALSE]

\* A driver that records the externalized value and stays on the slot.
OnBallotExternalized_KeepsSlot(d, s) ==
    [d EXCEPT !.values = [k \in DOMAIN d.values \cup {d.slot} |->
                             IF k = d.slot THEN s.b.x ELSE d.values[k]]]

\* What the driver becomes once its ballot state s has reached Externalize:
\* it records values[slot] = b.x and moves to the next slot.
OnBallotExternalized(d, s) ==
    [d EXCEPT !.slot = d.slot + 1,
              !.values = [k \in DOMAIN d.values \cup {d.slot} |->
                             IF k = d.slot THEN s.b.x ELSE d.values[k]]]

(***************************************************************************)
(* The messages peers send.  A peer message is any message that            *)
(* BallotState.Message can build from a ballot b, an optional prepared     *)
(* ballot and a range [c, h]; which of them the peers send, and in which   *)
(* order, is unconstrained.                                                *)
(***************************************************************************)
Ballots == {Ballot(n, x) : n \in 1..MaxN, x \in Values}

\* The null ballot as the wire format carries it.
ZeroBallot == Ballot(0, ZeroValue)

Ranges == {r \in (1..MaxN) \X (1..MaxN) : r[1] <= r[2]}

\* A Prepare message votes for a ballot b.  It may report as accepted prepared
\* a ballot p of the same value and of a number >= b.n, and when p = b it may
\* also vote to commit b.  p' is left null.
PrepareMessages ==
    {PrepareMessage(c[1].n, c[1].x, c[2].n, c[2].x, 0, ZeroValue, c[3], c[3],
                    TestQuorumSlice) :
        c \in {d \in Ballots \X (Ballots \cup {ZeroBallot}) \X (0..MaxN) :
                  /\ d[2] # ZeroBallot => (d[2].x = d[1].x /\ d[2].n >= d[1].n)
                  /\ d[3] # 0 => (d[3] = d[1].n /\ d[2] = d[1])}}

ConfirmMessages ==
    {ConfirmMessage(x, r[2], r[1], r[2], TestQuorumSlice) :
        x \in Values, r \in Ranges}

ExternalizeMessages ==
    {ExternalizeMessage(x, r[1], r[2], TestQuorumSlice) :
        x \in Values, r \in Ranges}

BallotMessages == PrepareMessages \cup ConfirmMessages \cup ExternalizeMessages

(***************************************************************************)
(* The BallotState of one node.                                            *)
(***************************************************************************)
\* Outside the consensus state nothing has happened.
InitOthers ==
    /\ finder = NewFinder
    /\ pair = NewPair(TestQuorumSlice)
    /\ db = NewDatabase
    /\ conn = NewBasicConnection

InitBallot ==
    /\ bState = NewBallotState
    /\ nState = NewNominationState
    /\ sb = NewStateBuilder
    /\ InitOthers

Handle(node, message) ==
    /\ bState' = BallotHandle(bState, node, message)
    /\ UNCHANGED <<nState, sb, others>>

\* The exported checks, called on their own with any ballot.
AcceptAsPreparedStep(n, x) ==
    /\ bState' = MaybeAcceptAsPrepared(bState, n, x)
    /\ UNCHANGED <<nState, sb, others>>

ConfirmAsPreparedStep(n, x) ==
    /\ bState' = MaybeConfirmAsPrepared(bState, n, x)
    /\ UNCHANGED <<nState, sb, others>>

AcceptAsCommittedStep(n, x) ==
    /\ bState' = MaybeAcceptAsCommitted(bState, n, x)
    /\ UNCHANGED <<nState, sb, others>>

ConfirmAsCommittedStep(n, x) ==
    /\ bState' = MaybeConfirmAsCommitted(bState, n, x)
    /\ UNCHANGED <<nState, sb, others>>

InvestigateStep(n, x) ==
    /\ bState' = Investigate(bState, n, x)
    /\ UNCHANGED <<nState, sb, others>>

NextBallotStep ==
    /\ bState' = MaybeNextBallot(bState)
    /\ UNCHANGED <<nState, sb, others>>

NextBallot ==
    \/ \E node \in Senders, message \in BallotMessages : Handle(node, message)
    \/ \E c \in Ballots : AcceptAsPreparedStep(c.n, c.x)
    \/ \E c \in Ballots : ConfirmAsPreparedStep(c.n, c.x)
    \/ \E c \in Ballots : AcceptAsCommittedStep(c.n, c.x)
    \/ \E c \in Ballots : ConfirmAsCommittedStep(c.n, c.x)
    \/ \E c \in Ballots : InvestigateStep(c.n, c.x)
    \/ NextBallotStep

SpecBallot == InitBallot /\ [][NextBallot]_vars

(***************************************************************************)
(* The NominationState of one node.  Peers send nomination messages whose  *)
(* X and Y are any two lists of at most MaxLen different values.           *)
(***************************************************************************)
ValueLists ==
    {l \in UNION {[1..k -> Values] : k \in 0..MaxLen} :
        \A i, j \in 1..Len(l) : l[i] = l[j] => i = j}

NominationMessages ==
    {NominationMessage(1, x, y, TestQuorumSlice) : x \in ValueLists, y \in ValueLists}

InitNomination ==
    /\ nState = NewNominationState
    /\ bState = NewBallotState
    /\ sb = NewStateBuilder
    /\ InitOthers

NominationSetDefault(v) ==
    /\ nState' = SetDefault(nState, v)
    /\ UNCHANGED <<bState, sb, others>>

NominationMaybeAdvance(v) ==
    /\ nState' = MaybeAdvance(nState, v)
    /\ UNCHANGED <<bState, sb, others>>

HandleNomination(node, m) ==
    /\ nState' = NominationHandle(nState, node, m)
    /\ UNCHANGED <<bState, sb, others>>

NextNomination ==
    \/ \E v \in Values : NominationSetDefault(v)
    \/ \E v \in Values : NominationMaybeAdvance(v)
    \/ \E node \in Senders, m \in NominationMessages : HandleNomination(node, m)

SpecNomination == InitNomination /\ [][NextNomination]_vars

\* The node as the program drives it: BallotState.Handle alone.
NextHandle == \E node \in Senders, message \in BallotMessages : Handle(node, message)

SpecHandle == InitBallot /\ [][NextHandle]_vars

(***************************************************************************)
(* Runs of Handle calls on one object, a BallotState or a NominationState. *)
(* The two objects share no field, so a run exercises one of them and      *)
(* leaves the other as constructed.                                        *)
(***************************************************************************)
HandleBallotState(node, message) ==
    /\ nState = NewNominationState
    /\ Handle(node, message)

HandleNominationState(node, m) ==
    /\ bState = NewBallotState
    /\ HandleNomination(node, m)

NextHandles ==
    \/ \E node \in Senders, message \in BallotMessages :
           HandleBallotState(node, message)
    \/ \E node \in Senders, m \in NominationMessages :
           HandleNominationState(node, m)

SpecHandles == InitBallot /\ [][NextHandles]_vars

(***************************************************************************)
(* The StateBuilder of one node.  Peers send it nominations of one value   *)
(* and Confirm and Externalize messages; the ballot state is taken as      *)
(* created along with the builder.                                         *)
(***************************************************************************)
InitStateBuilder ==
    /\ bState = NewBallotState
    /\ nState = NewNominationState
    /\ sb = WithBallotState(NewStateBuilder)
    /\ InitOthers

BuilderNominationMessages ==
    {NominationMessage(1, <<v>>, <<>>, TestQuorumSlice) : v \in Values}

BuilderBallotMessages == ConfirmMessages \cup ExternalizeMessages

\* OutgoingMessages nominates a value v of its own making if there is
\* nothing to nominate; the messages it returns change no state.
\* It then calls HasMessage on its bState, nil or not.
OutgoingMessages(v) ==
    /\ sb.slot <= MaxSlot
    /\ ~sb.panicked
    /\ nState' = SetDefault(nState, v)
    /\ sb' = [sb EXCEPT !.panicked = sb.bStateNil]
    /\ UNCHANGED <<bState, others>>

\* StateBuilder.Handle hands the message to the state of its type.
StateBuilderHandle(sender, message) ==
    /\ sb.slot <= MaxSlot
    /\ ~sb.panicked
    /\ IF message \in NominationMessages
       THEN /\ nState' = NominationHandle(nState, sender, message)
            /\ UNCHANGED <<bState, sb, others>>
       ELSE IF sb.bStateNil
       THEN /\ sb' = [sb EXCEPT !.panicked = TRUE]
            /\ UNCHANGED <<nState, bState, others>>
       ELSE /\ bState' = BallotHandle(bState, sender, message)
            /\ UNCHANGED <<nState, sb, others>>

BallotExternalized ==
    /\ ~sb.bStateNil
    /\ bState.phase = Externalize
    /\ sb.slot <= MaxSlot
    /\ sb' = OnBallotExternalized(sb, bState)
    /\ nState' = NewNominationState
    /\ bState' = NewBallotState
    /\ UNCHANGED others

NextStateBuilder ==
    \/ \E v \in Values : OutgoingMessages(v)
    \/ \E sender \in Senders,
          message \in BuilderNominationMessages \cup BuilderBallotMessages :
           StateBuilderHandle(sender, message)
    \/ BallotExternalized

SpecStateBuilder == InitStateBuilder /\ [][NextStateBuilder]_vars

(***************************************************************************)
(* The StateBuilder as NewStateBuilder returns it.                         *)
(***************************************************************************)
NextNewStateBuilder ==
    \/ \E v \in Values : OutgoingMessages(v)
    \/ \E sender \in Senders,
          message \in NominationMessages \cup BuilderBallotMessages :
           StateBuilderHandle(sender, message)

SpecNewStateBuilder == InitBallot /\ [][NextNewStateBuilder]_vars

(***************************************************************************)
(* A BallotState whose own slice asks for three or for all four of the     *)
(* nodes, fed by all three peers with Confirm messages and with Prepare    *)
(* messages that vote for a ballot and report a lower ballot of another    *)
(* value as prepared.                                                      *)
(***************************************************************************)
Slices == {[Members |-> Nodes, Threshold |-> t] : t \in (NumNodes - 1)..NumNodes}

ConflictingPrepareMessages ==
    {PrepareMessage(c[1].n, c[1].x, c[2].n, c[2].x, 0, ZeroValue, 0, 0,
                    TestQuorumSlice) :
        c \in {d \in Ballots \X Ballots : d[1].x # d[2].x /\ d[1].n > d[2].n}}

InitSlices ==
    /\ \E d \in Slices : bState = [NewBallotState EXCEPT !.D = d]
    /\ nState = NewNominationState
    /\ sb = NewStateBuilder
    /\ InitOthers

\* A Handle call that returns: its loop ends.
HandleReturns(node, message) ==
    /\ \/ IsStale(bState, node, message)
       \/ ~LoopRepeats(Store(bState, node, message), message, {}, MaxLoop)
    /\ Handle(node, message)

NextSlices ==
    \E node \in Peers, message \in ConfirmMessages \cup ConflictingPrepareMessages :
        HandleReturns(node, message)

SpecSlices == InitSlices /\ [][NextSlices]_vars


(***************************************************************************)
(* The quorum finder: every lookup and every set of nodes, and the two     *)
(* predicates applied to them.                                             *)
(***************************************************************************)
InitFinder ==
    /\ \E slices \in FinderLookups, S \in SUBSET FinderNodes :
           finder = [NewFinder EXCEPT !.slices = slices, !.S = S]
    /\ nState = NewNominationState
    /\ bState = NewBallotState
    /\ sb = NewStateBuilder
    /\ pair = NewPair(TestQuorumSlice)
    /\ db = NewDatabase
    /\ conn = NewBasicConnection

MeetsQuorumCall ==
    /\ "MeetsQuorum" \notin finder.done
    /\ finder' = [finder EXCEPT
                     !.meets = MeetsQuorum(publicKey, finder.slices, finder.S),
                     !.done = @ \cup {"MeetsQuorum"}]
    /\ UNCHANGED <<scpVars, pair, db, conn>>

BlockedByCall ==
    /\ "BlockedBy" \notin finder.done
    /\ finder' = [finder EXCEPT
                     !.blocked = BlockedBy(finder.slices[publicKey], finder.S),
                     !.done = @ \cup {"BlockedBy"}]
    /\ UNCHANGED <<scpVars, pair, db, conn>>

NextFinder == MeetsQuorumCall \/ BlockedByCall

SpecFinder == InitFinder /\ [][NextFinder]_vars

(***************************************************************************)
(* Two nodes nominating to each other: each sets its default when it has   *)
(* nothing to nominate, sends its nomination message, and handles the      *)
(* message of the other.                                                   *)
(***************************************************************************)
InitPair ==
    /\ \E d \in PairSlices : pair = NewPair(d)
    /\ nState = NewNominationState
    /\ bState = NewBallotState
    /\ sb = NewStateBuilder
    /\ finder = NewFinder
    /\ db = NewDatabase
    /\ conn = NewBasicConnection

\* OutgoingMessages of node who, which has nothing to nominate yet.
PairSetDefault(who, v) ==
    /\ ~HasNomination(pair.s[who])
    /\ pair' = [pair EXCEPT !.s[who] = SetDefault(@, v), !.defaults[who] = v]
    /\ UNCHANGED <<scpVars, finder, db, conn>>

\* Node who handles the nomination message the other node sends now.
PairHandle(who) ==
    LET other == 3 - who
    IN  /\ HasNomination(pair.s[other])
        /\ pair.handled[who] < MaxHandles
        /\ pair' = [pair EXCEPT
                       !.s[who] = NominationHandle(@, OtherNode,
                                      NominationMessageOf(pair.s[other])),
                       !.handled[who] = @ + 1]
        /\ UNCHANGED <<scpVars, finder, db, conn>>

NextPair ==
    \/ \E who \in 1..2, v \in Values : PairSetDefault(who, v)
    \/ \E who \in 1..2 : PairHandle(who)

SpecPair == InitPair /\ [][NextPair]_vars

(***************************************************************************)
(* The database: blocks are inserted in any order, any number of times.    *)
(***************************************************************************)
InitDatabase ==
    /\ db = NewDatabase
    /\ conn = NewBasicConnection
    /\ nState = NewNominationState
    /\ bState = NewBallotState
    /\ sb = NewStateBuilder
    /\ finder = NewFinder
    /\ pair = NewPair(TestQuorumSlice)
    /\ conn = NewBasicConnection

InsertBlockCall(b) ==
    /\ db' = InsertBlock(db, b)
    /\ UNCHANGED <<scpVars, finder, pair, conn>>

NextDatabase == \E b \in Blocks : InsertBlockCall(b)

SpecDatabase == InitDatabase /\ [][NextDatabase]_vars

(***************************************************************************)
(* A BasicConnection with its callers and its goroutine runOutgoing, in    *)
(* any interleaving.                                                       *)
(***************************************************************************)
InitConnection ==
    /\ conn = NewBasicConnection
    /\ nState = NewNominationState
    /\ bState = NewBallotState
    /\ sb = NewStateBuilder
    /\ finder = NewFinder
    /\ pair = NewPair(TestQuorumSlice)
    /\ db = NewDatabase

\* A call of Send with the next message.
SendCall ==
    /\ conn.sent < MaxSends
    /\ LET m == conn.sent + 1
           r == Send(conn, m)
       IN  conn' = [r EXCEPT !.sent = m,
                             !.accepted = IF r.ok THEN Append(@, m) ELSE @]
    /\ UNCHANGED <<scpVars, finder, pair, db>>

\* A call of Close arrives at quitOnce.Do.
CloseCall ==
    /\ conn.once # "running"
    /\ conn' = CloseEnter(conn)
    /\ UNCHANGED <<scpVars, finder, pair, db>>

\* The call inside quitOnce.Do closes the quit channel.
CloseQuitStep ==
    /\ conn.once = "running"
    /\ conn' = CloseQuit(conn)
    /\ UNCHANGED <<scpVars, finder, pair, db>>

\* runOutgoing's select takes the quit case and returns.
OutgoingQuit ==
    /\ conn.out = "select"
    /\ conn.quit
    /\ conn' = [conn EXCEPT !.out = "returned"]
    /\ UNCHANGED <<scpVars, finder, pair, db>>

\* runOutgoing's select takes the timer case: a keepalive.
OutgoingTimer ==
    /\ conn.out = "select"
    /\ conn' = [conn EXCEPT !.out = "write", !.cur = 0]
    /\ UNCHANGED <<scpVars, finder, pair, db>>

\* runOutgoing's select takes a message from the outbox.
OutgoingTake ==
    /\ conn.out = "select"
    /\ conn.outbox # <<>>
    /\ conn' = [conn EXCEPT !.out = "write", !.cur = Head(conn.outbox),
                            !.outbox = Tail(conn.outbox)]
    /\ UNCHANGED <<scpVars, finder, pair, db>>

\* runOutgoing writes the message to the network connection.
OutgoingWrite ==
    /\ conn.out = "write"
    /\ conn' = [conn EXCEPT !.out = "select", !.cur = 0,
                            !.wire = IF conn.cur = 0 THEN @
                                     ELSE Append(@, conn.cur)]
    /\ UNCHANGED <<scpVars, finder, pair, db>>

\* A message arrives in the inbox.
InboxArrives ==
    /\ conn.inbox < MaxInbox
    /\ conn' = [conn EXCEPT !.inbox = @ + 1]
    /\ UNCHANGED <<scpVars, finder, pair, db>>

\* A call of Receive returns.
ReceiveCall ==
    /\ \E r \in ReceiveResults(conn) :
           conn' = [conn EXCEPT !.received = r,
                                !.inbox = IF r = "message" THEN @ - 1 ELSE @]
    /\ UNCHANGED <<scpVars, finder, pair, db>>

NextConnection ==
    \/ SendCall
    \/ CloseCall
    \/ CloseQuitStep
    \/ OutgoingQuit
    \/ OutgoingTimer
    \/ OutgoingTake
    \/ OutgoingWrite
    \/ InboxArrives
    \/ ReceiveCall

SpecConnection == InitConnection /\ [][NextConnection]_vars

\* The scheduling of the goroutines: a select that finds the quit case ready
\* again and again takes it at last (a select chooses among its ready cases
\* at random), a write to the network connection returns, and the call
\* inside quitOnce.Do goes on.
FairConnection ==
    /\ SF_vars(OutgoingQuit)
    /\ WF_vars(OutgoingWrite)
    /\ WF_vars(CloseQuitStep)

SpecConnectionFair == SpecConnection /\ FairConnection

(***************************************************************************)
(* Steps.  A step is one run of one of the five checks of a BallotState:   *)
(* the checks called on their own, and the checks Handle runs one after    *)
(* the other.                                                              *)
(***************************************************************************)
\* R holds of every two consecutive states of steps.
Consecutive(steps, R(_, _)) ==
    \A i \in 1..(Len(steps) - 1) : R(steps[i], steps[i + 1])

\* R holds of every step that can be taken from the current state, and of
\* every step inside every Handle call that can be made in it.
EveryStep(R(_, _)) ==
    /\ \A node \in Senders, message \in BallotMessages :
           Consecutive(HandleSteps(bState, node, message), R)
    /\ \A c \in Ballots :
           /\ R(bState, MaybeAcceptAsPrepared(bState, c.n, c.x))
           /\ R(bState, MaybeConfirmAsPrepared(bState, c.n, c.x))
           /\ R(bState, MaybeAcceptAsCommitted(bState, c.n, c.x))
           /\ R(bState, MaybeConfirmAsCommitted(bState, c.n, c.x))
    /\ R(bState, MaybeNextBallot(bState))

PhaseAdvances(s, t) ==
    \/ t.phase = s.phase
    \/ s.phase = Prepare /\ t.phase = Confirm
    \/ s.phase = Confirm /\ t.phase = Externalize

\* C2: in every sequence of BallotState operations each check leaves the
\* phase alone or moves it from Prepare to Confirm or from Confirm to
\* Externalize: the phase never moves backwards and never reaches
\* Externalize without having been Confirm.
C2_PhaseOnlyAdvances == EveryStep(PhaseAdvances)

\* C2 witness: a Handle call that took the state from Prepare through Confirm
\* to Externalize has run, and the state has been visited.
C2_Witness ==
    /\ bState.phase = Externalize
    /\ bState.b # Nil
    /\ bState.z = bState.b.x

\* The range [0, 0] is the empty range.
RangeIn(s, t) ==
    (s.cn = 0 /\ s.hn = 0) \/ (t.cn <= s.cn /\ t.hn >= s.hn /\ t.cn >= 1)

\* C5 as claimed, [0, 0] being the empty range that any range widens: a step
\* that keeps the phase never raises c, never lowers h and never resets a
\* range to [0, 0].
RangeWidens(s, t) == t.phase = s.phase => RangeIn(s, t)

RangeWidensForSameValue(s, t) ==
    (/\ t.phase = s.phase
     /\ s.b # Nil
     /\ t.b # Nil
     /\ t.b.x = s.b.x) => RangeIn(s, t)

C6_ExternalizeIsTerminal ==
    [][bState.phase = Externalize =>
          /\ bState'.phase = Externalize
          /\ bState.b # Nil
          /\ bState'.b # Nil
          /\ bState'.b.x = bState.b.x]_vars

\* C6 witness: the node has externalized a value and has since handled, from
\* every sender, a message that accepts a commit of another value.
C6_Witness ==
    /\ bState.phase = Externalize
    /\ \A node \in Senders :
           /\ node \in DOMAIN bState.M
           /\ bState.M[node].T # Prepare
           /\ bState.M[node].X # bState.b.x

\* C7 as claimed: while the phase is Confirm no Handle call changes b.x.
C7_ConfirmValueFixed ==
    [][bState.phase = Confirm =>
          /\ bState'.b # Nil
          /\ bState'.b.x = bState.b.x]_vars

\* C8 as claimed: in the Prepare phase with b non-null, c <= h and b.n >= h.
C8_BallotCoversRange ==
    (bState.phase = Prepare /\ bState.b # Nil) =>
        (bState.cn <= bState.hn /\ bState.b.n >= bState.hn)

\* C9: whenever p and p' are both non-null their values differ, and p' is
\* never non-null while p is null.
C9_PreparedIncompatible ==
    /\ (bState.p # Nil /\ bState.pPrime # Nil) => bState.p.x # bState.pPrime.x
    /\ bState.pPrime # Nil => bState.p # Nil

\* C9 witness: two ballots have been accepted as prepared.
C9_Witness == bState.p # Nil /\ bState.pPrime # Nil

\* C10 as claimed: whenever p and p' are both non-null, p' < p in ballot
\* order.
C10_PreparedOrdered ==
    (bState.p # Nil /\ bState.pPrime # Nil) => BallotLess(bState.pPrime, bState.p)

(***************************************************************************)
(* Claims about the NominationState.                                       *)
(***************************************************************************)
IsPrefix(a, b) == Len(a) <= Len(b) /\ SubSeq(b, 1, Len(a)) = a

NoDuplicates(list) ==
    \A i, j \in 1..Len(list) : list[i] = list[j] => i = j

\* C3: SetDefault, Handle and MaybeAdvance only append to X, Y and Z: no
\* value is ever removed from them, and Z never holds a value twice.
C3_NominationsGrowOnly ==
    [][/\ IsPrefix(nState.X, nState'.X)
       /\ IsPrefix(nState.Y, nState'.Y)
       /\ IsPrefix(nState.Z, nState'.Z)
       /\ NoDuplicates(nState'.Z)]_vars

\* C3 witness: a default was set, peers' values were added to X, and a
\* value was accepted and confirmed.
C3_Witness ==
    /\ Len(nState.X) >= 2
    /\ Len(nState.Y) >= 1
    /\ Len(nState.Z) >= 1
    /\ DOMAIN nState.N = Senders

ValuesOf(list) == {list[i] : i \in 1..Len(list)}

\* C4 as claimed: Z is a subset of Y and Y is a subset of X.
C4_NominationsNested ==
    /\ ValuesOf(nState.Z) \subseteq ValuesOf(nState.Y)
    /\ ValuesOf(nState.Y) \subseteq ValuesOf(nState.X)

(***************************************************************************)
(* Claims about stale and duplicate messages.                              *)
(***************************************************************************)
\* C11: after any sequence of Handle calls on a BallotState or on a
\* NominationState, whatever message a peer sends next, handling a copy of
\* it right after it leaves the state (phase, b, p, p', c, h, z, M,
\* respectively X, Y, Z, N) as the first delivery left it.
C11_DuplicateChangesNothing ==
    /\ \A node \in Senders, message \in BallotMessages :
           LET t == BallotHandle(bState, node, message)
           IN  BallotHandle(t, node, message) = t
    /\ \A node \in Senders, m \in NominationMessages :
           LET t == NominationHandle(nState, node, m)
           IN  NominationHandle(t, node, m) = t

\* C11 witness: every sender's message is stored and the node votes to
\* commit a ballot, so that handling a stored message again would run the
\* checks on a state they can change.
C11_Witness ==
    /\ DOMAIN bState.M = Senders
    /\ bState.phase = Confirm
    /\ \E node \in Senders : BallotNumber(bState.M[node]) > bState.b.n

\* C12: a message that does not compare above the one stored for its sender
\* is discarded: Handle passes through no state but the one it started in,
\* so M, phase, b, p, p', c, h and z are unchanged and neither Investigate
\* nor MaybeNextBallot runs.
C12_StaleIsDiscarded ==
    \A node \in DOMAIN bState.M, message \in BallotMessages :
        Compare(bState.M[node], message) >= 0 =>
            HandleSteps(bState, node, message) = <<bState>>

\* C12 witness: a sender has a stored message that some other message is
\* strictly older than, in a state where the node has a ballot.
C12_Witness ==
    /\ bState.b # Nil
    /\ \E node \in DOMAIN bState.M, message \in BallotMessages :
           Compare(bState.M[node], message) > 0

\* C13: NominationState.Handle leaves N, X, Y and Z unchanged when the
\* message's X or Y is shorter than the one recorded for the sender, or both
\* are as long as the recorded ones (nothing recorded counting as length 0);
\* in every other case the message becomes the one recorded for the sender.
C13_OldNominationIsDropped ==
    \A node \in Senders, m \in NominationMessages :
        LET ok == node \in DOMAIN nState.N
            lenX == IF ok THEN Len(nState.N[node].X) ELSE 0
            lenY == IF ok THEN Len(nState.N[node].Y) ELSE 0
            t == NominationHandle(nState, node, m)
        IN  IF \/ Len(m.X) < lenX
               \/ Len(m.Y) < lenY
               \/ (Len(m.X) = lenX /\ Len(m.Y) = lenY)
            THEN t = nState
            ELSE node \in DOMAIN t.N /\ t.N[node] = m

\* C13 witness: a sender's recorded message has a value in X and in Y, so a
\* later message can be shorter in X only, in Y only, as long, or longer.
C13_Witness ==
    \E node \in DOMAIN nState.N :
        /\ Len(nState.N[node].X) = 1
        /\ Len(nState.N[node].Y) = 1
        /\ Len(nState.Y) >= 1

Core(s) == <<s.phase, s.b, s.p, s.pPrime, s.cn, s.hn, s.z>>

\* C18 as claimed: with the peers' messages fixed, investigating two ballots
\* in either order ends in the same phase, b, p, p', c, h and z.
C18_InvestigateCommutes ==
    \A c1, c2 \in Ballots :
        Core(Investigate(Investigate(bState, c1.n, c1.x), c2.n, c2.x)) =
        Core(Investigate(Investigate(bState, c2.n, c2.x), c1.n, c1.x))

\* C19 as claimed: every Handle call ends: whatever the stored messages and
\* the incoming message, the loop of Investigate and MaybeNextBallot never
\* comes back to a state in which it has already started a round.
C19_HandleTerminates ==
    \A node \in Peers, message \in BallotMessages \cup ConflictingPrepareMessages :
        ~IsStale(bState, node, message) =>
            ~LoopRepeats(Store(bState, node, message), message, {}, MaxLoop)

C21_ZAgreesWithBallot ==
    /\ bState.b # Nil => (bState.z # NilValue /\ bState.z = bState.b.x)
    /\ bState.z = NilValue => bState.b = Nil

\* The commit of a ballot was accepted before any ballot was accepted as
\* prepared, so b and z were set together by MaybeAcceptAsCommitted; and z
\* is the value of b.
C21_Witness ==
    /\ bState.phase = Confirm
    /\ bState.p = Nil
    /\ bState.b # Nil
    /\ bState.z = bState.b.x

\* A step that resets b to null starts and ends in Prepare and leaves the
\* empty range.
AbortsInPrepare(s, t) ==
    (s.b # Nil /\ t.b = Nil) =>
        /\ s.phase = Prepare
        /\ t.phase = Prepare
        /\ t.cn = 0
        /\ t.hn = 0

(***************************************************************************)
(* C22: b is reset to null, with c = h = 0, only while the phase is        *)
(* Prepare; in every reachable state in Confirm or Externalize b is set,   *)
(* so that Message can read b.x.                                           *)
(***************************************************************************)
C22_AbortsStayInPrepare ==
    /\ EveryStep(AbortsInPrepare)
    /\ bState.phase \in {Confirm, Externalize} => HasMessage(bState)

\* An abort has happened: the state is in Prepare without a ballot, after
\* having had one (z is only ever set together with b).
C22_Witness ==
    /\ bState.phase = Prepare
    /\ bState.b = Nil
    /\ bState.z # NilValue
    /\ bState.cn = 0
    /\ bState.hn = 0

\* Q is a quorum for v under the lookup slices: it contains v, every node of
\* it has a slice, and it satisfies every one of them.
IsQuorumFor(v, slices, Q) ==
    /\ v \in Q
    /\ \A u \in Q : u \in DOMAIN slices /\ SatisfiedBy(slices[u], Q)

\* The set the removal loop of MeetsQuorum starts from, and the set it ends
\* with.
FinderStart == (finder.S \cup {publicKey}) \cap DOMAIN finder.slices

FinderFixpoint == QuorumFixpoint(finder.slices, FinderStart)

(***************************************************************************)
(* C23: MeetsQuorum(v, S) is true exactly when some Q within S \cup {v}    *)
(* that contains v is a quorum for v.  The removal loop ends, and the set  *)
(* it ends with lies in the starting set, satisfies the slice of each of   *)
(* its nodes, and contains every such set inside the starting set: when v  *)
(* survives it is the largest quorum for v in the starting set.            *)
(***************************************************************************)
C23_MeetsQuorumFindsQuorum ==
    "MeetsQuorum" \in finder.done =>
        /\ finder.meets <=>
               \E Q \in SUBSET (finder.S \cup {publicKey}) :
                   IsQuorumFor(publicKey, finder.slices, Q)
        /\ FinderFixpoint \subseteq FinderStart
        /\ \A u \in FinderFixpoint :
               SatisfiedBy(finder.slices[u], FinderFixpoint)
        /\ \A Q \in SUBSET FinderStart :
               (\A u \in Q : SatisfiedBy(finder.slices[u], Q))
                   => Q \subseteq FinderFixpoint
        /\ finder.meets =>
               IsQuorumFor(publicKey, finder.slices, FinderFixpoint)

\* MeetsQuorum has answered yes after its loop removed a node: the whole
\* starting set is not a quorum, a smaller set with the node in it is.
C23_Witness ==
    /\ "MeetsQuorum" \in finder.done
    /\ finder.meets
    /\ FinderFixpoint # FinderStart

\* Every selection of threshold members of the slice has a node in S.
EverySelectionMeets(qs, S) ==
    \A T \in SUBSET qs.Members :
        Cardinality(T) = qs.Threshold => T \cap S # {}

(***************************************************************************)
(* C24: for every slice and every set S of nodes, BlockedBy(S) holds       *)
(* exactly when every selection of threshold members of the slice meets S; *)
(* the empty set blocks no slice.                                          *)
(***************************************************************************)
C24_BlockedByMeetsEverySelection ==
    "BlockedBy" \in finder.done =>
        /\ finder.blocked <=>
               EverySelectionMeets(finder.slices[publicKey], finder.S)
        /\ finder.S = {} => ~finder.blocked

\* A set that holds some but not all members of the slice blocks it.
C24_Witness ==
    /\ "BlockedBy" \in finder.done
    /\ finder.blocked
    /\ finder.S \cap finder.slices[publicKey].Members # {}
    /\ finder.slices[publicKey].Members \ finder.S # {}

\* The two nodes set different defaults and each has handled a message of
\* the other.
MutuallyHandled ==
    /\ pair.defaults[1] # ZeroValue
    /\ pair.defaults[2] # ZeroValue
    /\ pair.defaults[1] # pair.defaults[2]
    /\ pair.handled[1] >= 1
    /\ pair.handled[2] >= 1

(***************************************************************************)
(* C25: when two nodes have set different defaults v1 and v2 and each has  *)
(* handled the nomination message of the other, both hold the values       *)
(* {v1, v2} in X, and both predict the same value, Combine(v1, v2), which  *)
(* is Combine(v2, v1).                                                     *)
(***************************************************************************)
C25_NominationDeterminism ==
    MutuallyHandled =>
        LET v1 == pair.defaults[1]
            v2 == pair.defaults[2]
        IN  /\ ValuesOf(pair.s[1].X) = {v1, v2}
            /\ ValuesOf(pair.s[2].X) = {v1, v2}
            /\ PredictValue(pair.s[1]) = PredictValue(pair.s[2])
            /\ PredictValue(pair.s[1]) = Combine({v1}, {v2})
            /\ Combine({v1}, {v2}) = Combine({v2}, {v1})

\* The two nodes are enough to satisfy the slice they share, so that a value
\* both have voted for is accepted at once.
PairIsQuorum == SatisfiedBy(pair.s[1].D, {publicKey, OtherNode})

\* C25, amended: when two nodes have set different defaults v1 and v2 and
\* each has handled the nomination message of the other, both hold the
\* values {v1, v2} in X; and if the two nodes do not satisfy their slice on
\* their own, both predict the same value, Combine(v1, v2), which is
\* Combine(v2, v1).
C25_NominationDeterminismWithoutQuorum ==
    MutuallyHandled =>
        LET v1 == pair.defaults[1]
            v2 == pair.defaults[2]
        IN  /\ ValuesOf(pair.s[1].X) = {v1, v2}
            /\ ValuesOf(pair.s[2].X) = {v1, v2}
            /\ Combine({v1}, {v2}) = Combine({v2}, {v1})
            /\ ~PairIsQuorum =>
                   /\ PredictValue(pair.s[1]) = PredictValue(pair.s[2])
                   /\ PredictValue(pair.s[1]) = Combine({v1}, {v2})

\* The two nodes have handled each other's message and hold the two values
\* in different orders; they are no quorum on their own.
C25_Witness ==
    /\ MutuallyHandled
    /\ ~PairIsQuorum
    /\ pair.s[1].X = <<pair.defaults[1], pair.defaults[2]>>
    /\ pair.s[2].X = <<pair.defaults[2], pair.defaults[1]>>

(***************************************************************************)
(* C26: the StateBuilder never fails for want of its BallotState: neither  *)
(* OutgoingMessages nor Handle of a ballot message, called on a builder    *)
(* fresh from NewStateBuilder, ends in a nil pointer dereference.          *)
(***************************************************************************)
C26_BallotStateNeverAbsent == ~sb.panicked

(***************************************************************************)
(* C27: after any sequence of InsertBlock calls the blocks table has at    *)
(* most one row for each slot; an InsertBlock for a slot that has a row    *)
(* returns the uniqueness error and leaves the table as it was.            *)
(***************************************************************************)
C27_BlockInsertedOncePerSlot ==
    /\ \A slot \in 1..MaxBlockSlot : Cardinality(GetBlock(db, slot)) <= 1
    /\ \A b \in Blocks :
           GetBlock(db, b.slot) # {} =>
               /\ InsertBlock(db, b).err # "nil"
               /\ InsertBlock(db, b).blocks = db.blocks

\* A second InsertBlock for a slot has returned the uniqueness error, with
\* two slots filled.
C27_Witness ==
    /\ db.err # "nil"
    /\ Len(db.blocks) = 2

\* The message runOutgoing is about to write, if it holds one.
InHand ==
    IF conn.out = "write" /\ conn.cur # 0 THEN <<conn.cur>> ELSE <<>>

(***************************************************************************)
(* C28: in every interleaving of Send calls with runOutgoing, a Send       *)
(* returns at once: true, with the message at the end of the outbox, if    *)
(* the outbox holds fewer than 100 messages, and false, with the outbox    *)
(* as it was, if it holds 100.  The outbox never holds more than 100       *)
(* messages, and the messages are written in the order Send accepted them. *)
(***************************************************************************)
C28_SendNeverBlocks ==
    /\ Len(conn.outbox) <= OutboxCapacity
    /\ LET m == conn.sent + 1
           r == Send(conn, m)
       IN  /\ r.ok <=> Len(conn.outbox) < OutboxCapacity
           /\ r.ok => r.outbox = Append(conn.outbox, m)
           /\ ~r.ok => r.outbox = conn.outbox
    /\ conn.wire \o InHand \o conn.outbox = conn.accepted

\* A Send has found the outbox full and dropped its message while
\* runOutgoing was at its write, with a message written before.
C28_Witness ==
    /\ conn.sent > 0
    /\ ~conn.ok
    /\ Len(conn.outbox) = OutboxCapacity
    /\ conn.out = "write"
    /\ conn.wire # <<>>

\* The quit channel is closed at most once, and exactly once when a Close
\* has returned; with quit closed and no message waiting, Receive returns
\* nil.
ClosedOnce ==
    /\ conn.quitCloses <= 1
    /\ conn.quit <=> conn.quitCloses = 1
    /\ conn.once = "done" => conn.quit
    /\ (conn.quit /\ conn.inbox = 0) => ReceiveResults(conn) = {"nil"}

C30_ConfirmAsPrepared ==
    \A n \in 0..MaxN, x \in Values :
        LET s == bState
            t == MaybeConfirmAsPrepared(s, n, x)
            fires == /\ s.phase = Prepare
                     /\ n > s.hn
                     /\ ConfirmedAsPrepared(s, n, x)
        IN  /\ t # s => fires
            /\ fires =>
                   /\ t.b # Nil /\ t.b.x = x
                   /\ t.hn = n
                   /\ (s.b = Nil \/ s.b.x # x) =>
                          t.b = Ballot(n, x) /\ t.cn = n /\ t.z = x
                   /\ (s.b # Nil /\ s.b.x = x) =>
                          t.b = s.b /\ t.cn = s.cn /\ t.z = s.z
                   /\ [t EXCEPT !.b = s.b, !.cn = s.cn, !.hn = s.hn,
                                !.z = s.z] = s

\* In Prepare, a ballot was confirmed as prepared above the one the node
\* had voted to commit, of the same value: h has moved and c has stayed.
C30_Witness ==
    /\ bState.phase = Prepare
    /\ bState.b # Nil
    /\ bState.cn >= 1
    /\ bState.hn > bState.cn
    /\ bState.z = bState.b.x

\* The peers whose latest message accepts the commit of (n, x), and those
\* whose latest message votes for it or accepts it.
CommitAcceptors(s, n, x) ==
    {node \in DOMAIN s.M : AcceptAsCommitted(s.M[node], n, x)}

CommitVoters(s, n, x) ==
    {node \in DOMAIN s.M :
        AcceptAsCommitted(s.M[node], n, x) \/ VoteToCommit(s.M[node], n, x)}

\* The federated-voting conditions for accepting and for confirming the
\* commit of (n, x); MeetsQuorum counts the node itself in.
MayAcceptCommit(s, n, x) ==
    \/ MeetsQuorum(publicKey, BallotSlices(s), CommitVoters(s, n, x))
    \/ BlockedBy(s.D, CommitAcceptors(s, n, x))

MayConfirmCommit(s, n, x) ==
    MeetsQuorum(publicKey, BallotSlices(s), CommitAcceptors(s, n, x))

(***************************************************************************)
(* C31: the phase becomes Confirm, with b.x = x, only in a                 *)
(* MaybeAcceptAsCommitted(n, x) for which a quorum votes for or accepts    *)
(* the commit of (n, x) or a set blocking D accepts it, and it becomes     *)
(* Externalize only in a MaybeConfirmAsCommitted(n, b.x) for which a       *)
(* quorum accepts the commit; without its condition either call leaves     *)
(* the state unchanged, and no other operation changes the phase.          *)
(***************************************************************************)
C31_PhaseGuardedByVoting ==
    /\ \A n \in 0..MaxN, x \in Values :
           LET s == bState
               t1 == MaybeAcceptAsCommitted(s, n, x)
               t2 == MaybeConfirmAsCommitted(s, n, x)
           IN  /\ ~MayAcceptCommit(s, n, x) => t1 = s
               /\ (s.phase # Confirm /\ t1.phase = Confirm) =>
                      /\ MayAcceptCommit(s, n, x)
                      /\ t1.b # Nil /\ t1.b.x = x
               /\ t1.phase \in {s.phase, Confirm}
               /\ ~MayConfirmCommit(s, n, x) => t2 = s
               /\ (s.phase # Externalize /\ t2.phase = Externalize) =>
                      /\ s.phase = Confirm
                      /\ s.b # Nil /\ s.b.x = x
                      /\ MayConfirmCommit(s, n, x)
               /\ t2.phase \in {s.phase, Externalize}
               /\ MaybeAcceptAsPrepared(s, n, x).phase = s.phase
               /\ MaybeConfirmAsPrepared(s, n, x).phase = s.phase
    /\ MaybeNextBallot(bState).phase = bState.phase

\* The node is in Confirm, and a quorum of the messages it holds votes for
\* or accepts the commit of the ballot it has accepted.
C31_Witness ==
    /\ bState.phase = Confirm
    /\ bState.b # Nil
    /\ bState.cn = bState.hn
    /\ MayAcceptCommit(bState, bState.cn, bState.b.x)
    /\ Cardinality(CommitVoters(bState, bState.cn, bState.b.x)) >= 2

\* The peers whose latest message has a ballot number above b.n.
Higher(s) == {node \in DOMAIN s.M : BallotNumber(s.M[node]) > s.b.n}

\* What MaybeNextBallot does in state s.
NextBallotRule(s) ==
    LET t == MaybeNextBallot(s)
    IN  IF s.z = NilValue \/ s.b = Nil THEN t = s /\ ~NextBallotNeeded(s)
        ELSE IF BlockedBy(s.D, Higher(s))
        THEN t = [s EXCEPT !.b = Ballot(s.b.n + 1, s.b.x)] /\ NextBallotNeeded(s)
        ELSE t = s /\ ~NextBallotNeeded(s)

(***************************************************************************)
(* C32: MaybeNextBallot returns false and changes nothing when z or b is   *)
(* null; otherwise it adds exactly 1 to b.n, and changes nothing else, if  *)
(* and only if the peers whose latest message has a ballot number above    *)
(* b.n block D.  This holds in every state a Handle call passes through.   *)
(* And when a Handle call that stores its message returns, b is null or    *)
(* the peers with a ballot number above b.n do not block D.                *)
(***************************************************************************)
C32_NextBallotWhenBlocked ==
    \A node \in Senders, message \in BallotMessages :
        LET steps == HandleSteps(bState, node, message)
            t == steps[Len(steps)]
        IN  /\ \A i \in 1..Len(steps) : NextBallotRule(steps[i])
            /\ ~IsStale(bState, node, message) =>
                   t.b = Nil \/ ~BlockedBy(t.D, Higher(t))

\* A Handle call has moved the node to the next ballot: in Prepare its
\* ballot number lies above h, where adopting a ballot puts it.
C32_Witness ==
    /\ bState.phase = Prepare
    /\ bState.b # Nil
    /\ bState.b.n > bState.hn
    /\ bState.hn >= 1
    /\ ~BlockedBy(bState.D, Higher(bState))

(***************************************************************************)
(* C33: in every reachable BallotState 0 <= c <= h, and c = 0 exactly when *)
(* h = 0; in Prepare b is null exactly when c = h = 0; and a ballot b has  *)
(* b.n >= 1.                                                               *)
(***************************************************************************)
C33_RangeWellFormed ==
    /\ 0 <= bState.cn
    /\ bState.cn <= bState.hn
    /\ bState.cn = 0 <=> bState.hn = 0
    /\ bState.phase = Prepare =>
           (bState.b = Nil <=> (bState.cn = 0 /\ bState.hn = 0))
    /\ bState.b # Nil => bState.b.n >= 1

C33_Witness ==
    /\ bState.phase = Confirm
    /\ bState.b # Nil
    /\ 1 <= bState.cn
    /\ bState.cn < bState.hn
    /\ \E node \in DOMAIN bState.M : bState.M[node].T = Prepare

====
